---- MODULE Spec2Model ----
(***************************************************************************)
(* Model of the simple-astro-api request handlers.                         *)
(*                                                                         *)
(* Three variants of the position handler coexist in the sources:          *)
(*   "v1"  src/api/positions.ts lines 1-97   (direct swe_* calls)          *)
(*   "v2"  src/unnamed/part_002              (compatibility shims)         *)
(*   "v3"  src/api/positions.ts lines 99-348 (validation + timezone)       *)
(* A request is handled in steps; the ephemeris provider (sweph) is the    *)
(* environment and answers each call with one of several result shapes or  *)
(* by throwing.                                                            *)
(*                                                                         *)
(* Numbers: angles are whole degrees; query numbers (lat, lng,             *)
(* tz_offset_minutes) are fixed-point with Scale units per 1.  The         *)
(* JavaScript value NaN is the integer NaN below, which no sample or       *)
(* computed value equals; every arithmetic or comparison operator that can *)
(* meet it treats it as JavaScript does.                                   *)
(***************************************************************************)
EXTENDS Integers, Sequences, FiniteSets, TLC

\* ------------------------------------------------------------------------
\* Bounds of the model
\* ------------------------------------------------------------------------

\* How many inputs of one request (query fields, provider build capabilities,
\* provider results) may differ from the nominal request.
MaxDev == 1

\* ------------------------------------------------------------------------
\* JavaScript numbers
\* ------------------------------------------------------------------------

NaN == -999999

isFinite(x) == x # NaN

\* JavaScript % : the remainder takes the sign of the dividend.
JsRem(a, b) ==
  IF ~isFinite(a) THEN NaN
  ELSE IF a >= 0 THEN a % b ELSE 0 - ((0 - a) % b)

\* a < b, a <= b, a >= b in JavaScript: false as soon as one side is NaN.
JsLt(a, b) == isFinite(a) /\ isFinite(b) /\ a < b
JsLe(a, b) == isFinite(a) /\ isFinite(b) /\ a <= b
JsGe(a, b) == isFinite(a) /\ isFinite(b) /\ a >= b

\* An optional value: <<>> is undefined / absent, <<x>> is present.
None == <<>>
Some(x) == <<x>>
IsSome(o) == Len(o) = 1
Val(o) == o[1]

\* ------------------------------------------------------------------------
\* Degree and sign helpers
\* ------------------------------------------------------------------------

signs ==
  << "Aries", "Taurus", "Gemini", "Cancer", "Leo", "Virgo", "Libra",
     "Scorpio", "Sagittarius", "Capricorn", "Aquarius", "Pisces" >>

\* The mutant of degNorm that leaves out the + 360.
degNorm_NoAdd(x) == JsRem(x, 360)

degNorm(x) ==
  IF ~isFinite(x) THEN NaN
  ELSE JsRem(JsRem(x, 360) + 360, 360)

\* The mutant of signName that rounds to the nearest sign boundary.
signName_Round(deg) ==
  IF ~isFinite(deg) THEN "undefined"
  ELSE signs[(((JsRem(JsRem(deg, 360) + 360, 360) + 15) \div 30) % 12) + 1]

\* signs[NaN] is undefined in JavaScript; JSON drops the field.
signName(deg) ==
  IF ~isFinite(deg) THEN "undefined"
  ELSE signs[(JsRem(JsRem(deg, 360) + 360, 360) \div 30) + 1]

\* The mutant of julianDay0 that leaves out the century correction.
julianDay0_NoCentury(y, m, d) ==
  IF ~isFinite(y) \/ ~isFinite(m) \/ ~isFinite(d) THEN NaN
  ELSE
    LET a  == (14 - m) \div 12
        y2 == y + 4800 - a
        m2 == m + 12 * a - 3
    IN  d + ((153 * m2 + 2) \div 5) + 365 * y2 + (y2 \div 4) - 32045 - 13

\* Julian day number at 0h of the civil date (the integer part jd0 of the
\* source); NaN when a date part is not a number.
julianDay0(y, m, d) ==
  IF ~isFinite(y) \/ ~isFinite(m) \/ ~isFinite(d) THEN NaN
  ELSE
    LET a  == (14 - m) \div 12
        y2 == y + 4800 - a
        m2 == m + 12 * a - 3
    IN  d + ((153 * m2 + 2) \div 5) + 365 * y2 + (y2 \div 4)
          - (y2 \div 100) + (y2 \div 400) - 32045

\* ------------------------------------------------------------------------
\* Provider results of calc_ut
\* ------------------------------------------------------------------------

\* A JavaScript value returned by CALC_UT, or the call throwing.
\*   t = "throw"      the call throws
\*   t = "null", "undefined"
\*   t = "num"        the plain number num
\*   t = "arr"        the array arr
\*   t = "obj"        an object; each named property is optional
Blank ==
  [ t |-> "obj", num |-> 0, arr |-> <<>>, data |-> None, longitude |-> None,
    lon |-> None, speed |-> None, longitudeSpeed |-> None, retrograde |-> None ]

Throw == [Blank EXCEPT !.t = "throw"]
JsNull == [Blank EXCEPT !.t = "null"]
JsUndefined == [Blank EXCEPT !.t = "undefined"]
JsNum(x) == [Blank EXCEPT !.t = "num", !.num = x]
JsArr(a) == [Blank EXCEPT !.t = "arr", !.arr = a]

\* !r
IsFalsy(r) ==
  \/ r.t \in {"null", "undefined"}
  \/ r.t = "num" /\ (r.num = 0 \/ ~isFinite(r.num))

\* typeof r === 'object' with r truthy
IsObject(r) == r.t \in {"obj", "arr"}

\* Number.isFinite(a[0]) for an array a
FirstFinite(a) == Len(a) >= 1 /\ isFinite(a[1])

\* extractLongitude(r): Some(longitude), or None for null.
extractLongitude(r) ==
  IF IsFalsy(r) THEN None
  ELSE IF r.t = "obj" /\ IsSome(r.data) /\ FirstFinite(Val(r.data))
    THEN Some(Val(r.data)[1])
  ELSE IF r.t = "obj" /\ IsSome(r.longitude) /\ isFinite(Val(r.longitude))
    THEN r.longitude
  ELSE IF r.t = "obj" /\ IsSome(r.lon) /\ isFinite(Val(r.lon))
    THEN r.lon
  ELSE IF r.t = "arr" /\ FirstFinite(r.arr) THEN Some(r.arr[1])
  ELSE IF r.t = "num" /\ isFinite(r.num) THEN Some(r.num)
  ELSE None

\* The longitudinal speed as v2 and v3 read it: Some(speed) or None for null.
speedOf(r) ==
  IF r.t = "obj" /\ IsSome(r.speed) THEN r.speed
  ELSE IF r.t = "obj" /\ IsSome(r.longitudeSpeed) THEN r.longitudeSpeed
  ELSE IF r.t = "arr" /\ Len(r.arr) > 3 THEN Some(r.arr[4])
  ELSE None

\* v3: retro = speed != null ? speed < 0 : false
retroV3(r) ==
  LET speed == speedOf(r)
  IN  IF IsSome(speed) THEN JsLt(Val(speed), 0) ELSE FALSE

\* v2: an explicit retrograde property first, then the speed.
retroV2(r) ==
  IF r.t = "obj" /\ IsSome(r.retrograde) THEN Val(r.retrograde)
  ELSE retroV3(r)

\* v2: lonDeg = 'longitude' in r ? r.longitude : isArray(r) ? r[0] : Number(r)
lonDegV2(r) ==
  IF r.t = "obj" /\ IsSome(r.longitude) THEN Val(r.longitude)
  ELSE IF r.t = "arr" THEN (IF Len(r.arr) >= 1 THEN r.arr[1] ELSE NaN)
  ELSE IF r.t = "num" THEN r.num
  ELSE IF r.t = "null" THEN 0
  ELSE NaN

\* v1: const { longitude, retrograde } = r ; longitude undefined becomes NaN.
lonDegV1(r) ==
  IF r.t = "obj" /\ IsSome(r.longitude) THEN Val(r.longitude) ELSE NaN

\* ------------------------------------------------------------------------
\* Strings (sequences of one-character strings) and their conversions
\* ------------------------------------------------------------------------

Scale == 10^4

Digits == {"0", "1", "2", "3", "4", "5", "6", "7", "8", "9"}

DigitVal ==
  "0" :> 0 @@ "1" :> 1 @@ "2" :> 2 @@ "3" :> 3 @@ "4" :> 4 @@
  "5" :> 5 @@ "6" :> 6 @@ "7" :> 7 @@ "8" :> 8 @@ "9" :> 9

AllDigits(s) == \A k \in 1..Len(s) : s[k] \in Digits

RECURSIVE DigitsVal(_)
DigitsVal(s) ==
  IF s = <<>> THEN 0
  ELSE DigitsVal(SubSeq(s, 1, Len(s) - 1)) * 10 + DigitVal[s[Len(s)]]

\* The first index of character c in s, or 0.
IndexOf(s, c) ==
  IF \E k \in 1..Len(s) : s[k] = c
    THEN CHOOSE k \in 1..Len(s) : s[k] = c /\ \A j \in 1..(k - 1) : s[j] # c
    ELSE 0

\* String.prototype.trim, for the space character.
RECURSIVE Trim(_)
Trim(s) ==
  IF s = <<>> THEN s
  ELSE IF s[1] = " " THEN Trim(Tail(s))
  ELSE IF s[Len(s)] = " " THEN Trim(SubSeq(s, 1, Len(s) - 1))
  ELSE s

\* String.prototype.split(c)
RECURSIVE Split(_, _)
Split(s, c) ==
  LET k == IndexOf(s, c)
  IN  IF k = 0 THEN << s >>
      ELSE << SubSeq(s, 1, k - 1) >> \o Split(SubSeq(s, k + 1, Len(s)), c)

\* Number(s) of an unsigned decimal literal, in units of 1/Scale; NaN when s
\* is not one.  (Literals with more than four fraction digits, exponents,
\* hexadecimal and "Infinity" are outside the samples.)
UnsignedNumber(s) ==
  LET dot == IndexOf(s, ".")
      ip  == IF dot = 0 THEN s ELSE SubSeq(s, 1, dot - 1)
      fp  == IF dot = 0 THEN <<>> ELSE SubSeq(s, dot + 1, Len(s))
  IN  IF ~AllDigits(ip) \/ ~AllDigits(fp) \/ Len(fp) > 4
         \/ (Len(ip) = 0 /\ Len(fp) = 0)
        THEN NaN
        ELSE DigitsVal(ip) * Scale + DigitsVal(fp) * 10^(4 - Len(fp))

\* Number(s) for a string s, in units of 1/Scale: surrounding spaces are
\* dropped, the empty string is 0, a sign may lead.
JsNumber(s) ==
  LET t == Trim(s)
  IN  IF t = <<>> THEN 0
      ELSE IF t[1] = "-"
        THEN (LET u == UnsignedNumber(Tail(t)) IN IF isFinite(u) THEN 0 - u ELSE NaN)
      ELSE IF t[1] = "+" THEN UnsignedNumber(Tail(t))
      ELSE UnsignedNumber(t)

\* Number(part) of a date or time part as a whole number (the samples hold no
\* fractional parts); a missing part is undefined and gives NaN.
PartNumber(parts, k) ==
  IF k > Len(parts) THEN NaN
  ELSE LET n == JsNumber(parts[k]) IN IF isFinite(n) THEN n \div Scale ELSE NaN

Lower == <<"a", "b", "c", "d", "e", "f", "g", "h", "i", "j", "k", "l", "m",
           "n", "o", "p", "q", "r", "s", "t", "u", "v", "w", "x", "y", "z">>
Upper == <<"A", "B", "C", "D", "E", "F", "G", "H", "I", "J", "K", "L", "M",
           "N", "O", "P", "Q", "R", "S", "T", "U", "V", "W", "X", "Y", "Z">>

UpperChar(c) ==
  IF \E k \in 1..26 : Lower[k] = c
    THEN Upper[CHOOSE k \in 1..26 : Lower[k] = c]
    ELSE c

\* String.prototype.toUpperCase
toUpperCase(s) == [k \in 1..Len(s) |-> UpperChar(s[k])]

\* /^\d{4}-\d{2}-\d{2}$/.test(s)
isValidDateStr(s) ==
  /\ Len(s) = 10
  /\ \A k \in {1, 2, 3, 4, 6, 7, 9, 10} : s[k] \in Digits
  /\ s[5] = "-" /\ s[8] = "-"

\* /^\d{2}:\d{2}(:\d{2})?$/.test(s)
isValidTimeStr(s) ==
  /\ Len(s) \in {5, 8}
  /\ \A k \in {1, 2, 4, 5} : s[k] \in Digits
  /\ s[3] = ":"
  /\ Len(s) = 8 => (s[6] = ":" /\ s[7] \in Digits /\ s[8] \in Digits)

\* (s || 'P').trim().toUpperCase().slice(0, 1)
clampHouseSystem(s) ==
  LET t == toUpperCase(Trim(IF s = <<>> THEN <<"P">> ELSE s))
  IN  SubSeq(t, 1, IF Len(t) >= 1 THEN 1 ELSE 0)

\* /^[A-Z]$/.test(hsys)
isHouseLetter(s) == Len(s) = 1 /\ \E k \in 1..26 : Upper[k] = s[1]

\* ------------------------------------------------------------------------
\* Queries
\* ------------------------------------------------------------------------

\* A query parameter is None (not given) or Some(string).
NominalQuery ==
  [ date |-> Some(<<"1", "9", "9", "2", "-", "0", "9", "-", "0", "8">>),
    time |-> Some(<<"1", "2", ":", "0", "0", ":", "0", "0">>),
    lat |-> Some(<<"-", "3", "4", ".", "9", "2", "8", "5">>),
    lng |-> Some(<<"1", "3", "8", ".", "6", "0", "0", "7">>),
    tz_offset_minutes |-> Some(<<"6", "0", "0">>),
    house_system |-> None,
    hsys |-> None ]

QueryFields ==
  {"date", "time", "lat", "lng", "tz_offset_minutes", "house_system", "hsys"}

DateSamples ==
  { None,
    Some(<<>>),
    Some(<<"2", "0", "0", "0", "-", "0", "2", "-", "2", "9">>),
    Some(<<"1", "9", "9", "2", "-", "1", "3", "-", "4", "5">>),
    Some(<<"1", "9", "9", "2", "-", "0", "2", "-", "3", "0">>),
    Some(<<"9", "2", "-", "0", "9", "-", "0", "8">>),
    Some(<<"1", "9", "9", "2", "/", "0", "9", "/", "0", "8">>),
    Some(<<"1", "9", "9", "2", "-", "9", "-", "8">>) }

TimeSamples ==
  { None,
    Some(<<>>),
    Some(<<"2", "3", ":", "5", "9">>),
    Some(<<"0", "0", ":", "3", "0", ":", "0", "0">>),
    Some(<<"2", "5", ":", "6", "1", ":", "6", "1">>),
    Some(<<"1", "2", ":", "0", "0", ":", "6", "0">>),
    Some(<<"7", ":", "0", "5">>),
    Some(<<"n", "o", "o", "n">>) }

LatSamples ==
  { None,
    Some(<<>>),
    Some(<<"9", "0">>),
    Some(<<"-", "9", "0">>),
    Some(<<"9", "0", ".", "0", "0", "0", "1">>),
    Some(<<"-", "9", "0", ".", "0", "0", "0", "1">>),
    Some(<<"a", "b", "c">>) }

LngSamples ==
  { None,
    Some(<<>>),
    Some(<<"1", "8", "0">>),
    Some(<<"-", "1", "8", "0">>),
    Some(<<"1", "8", "0", ".", "0", "0", "0", "1">>),
    Some(<<"-", "1", "8", "0", ".", "0", "0", "0", "1">>),
    Some(<<"e", "a", "s", "t">>) }

TzSamples ==
  { None,
    Some(<<>>),
    Some(<<"9", "0", "0">>),
    Some(<<"-", "9", "0", "0">>),
    Some(<<"9", "0", "1">>),
    Some(<<"-", "9", "0", "1">>),
    Some(<<"-", "4", "2", "0">>),
    Some(<<"u", "t", "c">>) }

HouseSystemSamples ==
  { Some(<<"P">>),
    Some(<<"k">>),
    Some(<<"P", "l", "a", "c", "i", "d", "u", "s">>),
    Some(<<"1", "2">>),
    Some(<<" ">>),
    Some(<<>>) }

HsysSamples ==
  { Some(<<"K">>),
    Some(<<"w">>),
    Some(<<"1">>) }

Samples(f) ==
  CASE f = "date" -> DateSamples
    [] f = "time" -> TimeSamples
    [] f = "lat" -> LatSamples
    [] f = "lng" -> LngSamples
    [] f = "tz_offset_minutes" -> TzSamples
    [] f = "house_system" -> HouseSystemSamples
    [] f = "hsys" -> HsysSamples

\* The queries that differ from the nominal one in at most n parameters.
RECURSIVE QueriesWithin(_)
QueriesWithin(n) ==
  IF n = 0 THEN {NominalQuery}
  ELSE LET prev == QueriesWithin(n - 1)
       IN  prev \cup
           UNION { UNION { { [q0 EXCEPT ![f] = v] : v \in Samples(f) }
                           : f \in QueryFields } : q0 \in prev }

QueryDevs(q0) == Cardinality({f \in QueryFields : q0[f] # NominalQuery[f]})

\* ------------------------------------------------------------------------
\* Provider results of houses_ex
\* ------------------------------------------------------------------------

\* A JavaScript value returned by HOUSES_EX, or the call throwing.
\*   t = "throw" | "null" | "obj" | "arr"
\*   obj: data.houses, data.points, houseCusps, cusps, houses, ascendant,
\*        asc, mc, MC, each optional
\*   arr: the array [arr0, arr1, arr2], each optional
HBlank ==
  [ t |-> "obj", dataHouses |-> None, dataPoints |-> None, houseCusps |-> None,
    cusps |-> None, houses |-> None, ascendant |-> None, asc |-> None,
    mc |-> None, MC |-> None, arr0 |-> None, arr1 |-> None, arr2 |-> None ]

HThrow == [HBlank EXCEPT !.t = "throw"]
HNull == [HBlank EXCEPT !.t = "null"]
HData(c, a, m) == [HBlank EXCEPT !.dataHouses = Some(c), !.dataPoints = Some(<<a, m>>)]
HNamed(c, a, m) == [HBlank EXCEPT !.houseCusps = Some(c), !.ascendant = Some(a), !.mc = Some(m)]
HShort(c, a, m) == [HBlank EXCEPT !.cusps = Some(c), !.asc = Some(a), !.MC = Some(m)]
HHouses(c) == [HBlank EXCEPT !.houses = Some(c)]
HArr(c, a, m) == [HBlank EXCEPT !.t = "arr", !.arr0 = Some(c), !.arr1 = Some(a), !.arr2 = Some(m)]

\* a ?? b
Coalesce(a, b) == IF IsSome(a) THEN a ELSE b

\* { degree: degNorm(c), sign: signName(c) }
angleOf(c) == [degree |-> degNorm(c), sign |-> signName(c)]

\* cuspsRaw.map((c) => ({ degree: degNorm(c), sign: signName(c) }))
cuspsOf(raw) == [k \in 1..Len(raw) |-> angleOf(raw[k])]

\* v3: cuspsRaw from data.houses, else houseCusps || cusps || houses || hres[0]
cuspsRawV3(h) ==
  IF h.t \notin {"obj", "arr"} THEN None
  ELSE IF IsSome(h.dataHouses) THEN h.dataHouses
  ELSE Coalesce(h.houseCusps, Coalesce(h.cusps, Coalesce(h.houses, h.arr0)))

\* v2: houseCusps || cusps || houses || hres[0]
cuspsRawV2(h) ==
  IF h.t \notin {"obj", "arr"} THEN None
  ELSE Coalesce(h.houseCusps, Coalesce(h.cusps, Coalesce(h.houses, h.arr0)))

\* v1: hres?.houseCusps
cuspsRawV1(h) == IF h.t \notin {"obj", "arr"} THEN None ELSE h.houseCusps

\* v3: ascRaw from data.points[0], else ascendant ?? asc ?? hres[1]
ascRawV3(h) ==
  IF h.t \notin {"obj", "arr"} THEN None
  ELSE IF IsSome(h.dataPoints) /\ Len(Val(h.dataPoints)) >= 2
    THEN Some(Val(h.dataPoints)[1])
  ELSE Coalesce(h.ascendant, Coalesce(h.asc, h.arr1))

\* v3: mcRaw from data.points[1], else mc ?? MC ?? hres[2]
mcRawV3(h) ==
  IF h.t \notin {"obj", "arr"} THEN None
  ELSE IF IsSome(h.dataPoints) /\ Len(Val(h.dataPoints)) >= 2
    THEN Some(Val(h.dataPoints)[2])
  ELSE Coalesce(h.mc, Coalesce(h.MC, h.arr2))

ascRawV2(h) ==
  IF h.t \notin {"obj", "arr"} THEN None
  ELSE Coalesce(h.ascendant, Coalesce(h.asc, h.arr1))

mcRawV2(h) ==
  IF h.t \notin {"obj", "arr"} THEN None
  ELSE Coalesce(h.mc, Coalesce(h.MC, h.arr2))

\* ascRaw != null ? { degree, sign } : null
optAngle(o) == IF IsSome(o) THEN Some(angleOf(Val(o))) ELSE None

\* ------------------------------------------------------------------------
\* House assignment
\* ------------------------------------------------------------------------

\* The mutant of inHouse that closes the interval at its end.
inHouse_ClosedEnd(deg, start, end) ==
  IF JsLe(start, end)
    THEN JsGe(deg, start) /\ JsLe(deg, end)
    ELSE JsGe(deg, start) \/ JsLe(deg, end)

\* start <= end ? (deg >= start && deg < end) : (deg >= start || deg < end)
inHouse(deg, start, end) ==
  IF JsLe(start, end)
    THEN JsGe(deg, start) /\ JsLt(deg, end)
    ELSE JsGe(deg, start) \/ JsLt(deg, end)

\* The loop for (let i = 0; i < 12; i++) from index i on; houseNum starts 12.
RECURSIVE houseScan(_, _, _)
houseScan(deg, cusps, i) ==
  IF i >= 12 THEN 12
  ELSE IF inHouse(deg, cusps[i + 1].degree, cusps[((i + 1) % 12) + 1].degree)
    THEN i + 1
  ELSE houseScan(deg, cusps, i + 1)

\* The mutant of houseNum whose loop starts at the second house.
houseNum_SkipFirst(deg, cusps) == houseScan(deg, cusps, 1)

houseNum(deg, cusps) == houseScan(deg, cusps, 0)

\* The mutant of assignHousesV3 that does not skip a non-finite degree.
assignHousesV3_NoSkip(ps, cusps) ==
  [k \in 1..Len(ps) |-> [ps[k] EXCEPT !.house = Some(houseScan(ps[k].degree, cusps, 0))]]

\* v3: planets without a finite degree are skipped.
assignHousesV3(ps, cusps) ==
  [k \in 1..Len(ps) |->
     IF ~isFinite(ps[k].degree) THEN ps[k]
     ELSE [ps[k] EXCEPT !.house = Some(houseNum(ps[k].degree, cusps))]]

\* v1, v2: every planet gets a house.
assignHousesV12(ps, cusps) ==
  [k \in 1..Len(ps) |-> [ps[k] EXCEPT !.house = Some(houseNum(ps[k].degree, cusps))]]

\* ------------------------------------------------------------------------
\* The environment: bodies and what the provider may answer
\* ------------------------------------------------------------------------

bodies ==
  << "Sun", "Moon", "Mercury", "Venus", "Mars", "Jupiter", "Saturn", "Uranus",
     "Neptune", "Pluto" >>

NumBodies == Len(bodies)

\* Sample longitudes and longitudinal speeds of the ten bodies.
NominalLon == << 166, 355, 5, 140, 200, 181, 313, 284, 286, 230 >>
NominalSpeed == << 1, 13, 1, 1, 1, 1, -1, -1, -1, 1 >>

Variants == {"v1", "v2", "v3"}

\* The result shape each variant was written for.
NominalCalc(v, b) ==
  LET L == NominalLon[b]
      S == NominalSpeed[b]
  IN  CASE v = "v1" -> [Blank EXCEPT !.longitude = Some(L), !.retrograde = Some(S < 0)]
        [] v = "v2" -> JsArr(<< L, 0, 1, S >>)
        [] v = "v3" -> [Blank EXCEPT !.data = Some(<< L, 0, 1, S >>)]

\* Other answers of the provider for body b.
CalcDeviations(b) ==
  LET L == NominalLon[b]
      S == NominalSpeed[b]
  IN  { Throw, JsNull, JsNum(L), JsNum(0), Blank,
        [Blank EXCEPT !.data = Some(<<>>)],
        [Blank EXCEPT !.data = Some(<< L + 360, 0, 1, S >>)],
        [Blank EXCEPT !.longitude = Some(L), !.speed = Some(-1)],
        [Blank EXCEPT !.longitude = Some(L), !.retrograde = Some(TRUE)],
        [Blank EXCEPT !.longitude = Some(L), !.speed = Some(1), !.retrograde = Some(TRUE)],
        [Blank EXCEPT !.longitude = Some(L), !.speed = Some(-1), !.retrograde = Some(FALSE)],
        [Blank EXCEPT !.lon = Some(L - 720), !.longitudeSpeed = Some(-1)],
        JsArr(<< L, 0, 1, -1 >>) }

\* The answers with at most `left` more deviations from the nominal request.
CalcOutcomes(v, b, left) ==
  {NominalCalc(v, b)} \cup (IF left > 0 THEN CalcDeviations(b) ELSE {})

\* Cusp sets.
Equal30 == [k \in 1..12 |-> 30 * (k - 1)]
Wrapping20 == [k \in 1..12 |-> 20 + 30 * (k - 1)]
MidWrap == [k \in 1..12 |-> (200 + 30 * (k - 1)) % 360]
Unnormalised == [k \in 1..12 |-> 380 + 30 * (k - 1)]
Degenerate == [k \in 1..12 |-> 100]
Overlapping == << 0, 90, 30, 120, 150, 180, 210, 240, 270, 300, 330, 350 >>
Thirteen == [k \in 1..13 |-> 30 * (k - 1)]
Eleven == [k \in 1..11 |-> 30 * (k - 1)]

NominalHouses(v) ==
  IF v = "v3" THEN HData(Equal30, 0, 270) ELSE HNamed(Equal30, 0, 270)

HousesDeviations ==
  { HThrow, HNull, HBlank,
    HData(Wrapping20, 20, 290), HNamed(Wrapping20, 20, 290),
    HData(MidWrap, 200, 110), HNamed(MidWrap, 200, 110),
    HShort(Unnormalised, 380, -70), HArr(Degenerate, 100, 100),
    HHouses(Overlapping), HNamed(Overlapping, 0, 270),
    HData(Thirteen, 0, 270), HNamed(Eleven, 0, 270), HNamed(<<>>, 0, 270),
    [HBlank EXCEPT !.dataHouses = Some(Equal30)] }

HousesOutcomes(v, left) ==
  {NominalHouses(v)} \cup (IF left > 0 THEN HousesDeviations ELSE {})

\* ------------------------------------------------------------------------
\* State
\* ------------------------------------------------------------------------

VARIABLES
  build,      \* the deployed variant and what the provider build exports
  q,          \* req.query
  pc,         \* where the handler is: "check", "init", "validate", "calc", "houses", "done"
  devs,       \* how many inputs of this request differ from the nominal one
  initThrew,  \* SET_EPHE_PATH threw (and was swallowed)
  input,      \* v3: the effective inputs, None before validation
  jd,         \* jd_ut: None, or Some([day, localSec, tz])
  rs,         \* the CALC_UT outcomes so far, one per call
  planets,    \* the planets array
  hres,       \* the HOUSES_EX outcome, None when not called
  houses,     \* the houses of the response (None: undefined)
  angles,     \* the angles of the response (None: null)
  status,     \* the HTTP status sent, 0 before the response
  error,      \* the error message of a 400 or 500 response
  call,       \* a helper applied on its own: [fn, arg, out, done]
  chat        \* the chat handler's request, position and response

vars ==
  << build, q, pc, devs, initThrew, input, jd, rs, planets, hres, houses,
     angles, status, error, call, chat >>

Cost(b) == IF b THEN 1 ELSE 0

\* No helper is applied on its own while a request is handled.
NoCall == [fn |-> "none", arg |-> 0, out |-> 0, done |-> FALSE]

\* No chat request is handled.
NoChat ==
  [ pc |-> "idle", method |-> "", body |-> <<>>, summary |-> "", guidance |-> "",
    status |-> 0, reply |-> "", error |-> "" ]

\* Module load chose the variant's shims; a request has arrived.
Init ==
  /\ \E v \in Variants, hh \in BOOLEAN, hs \in BOOLEAN :
       /\ build = [variant |-> v, HOUSES_EX |-> hh, SET_EPHE_PATH |-> hs]
       /\ q \in QueriesWithin(MaxDev)
       /\ devs = QueryDevs(q) + Cost(~hh) + Cost(~hs)
       /\ devs <= MaxDev
       /\ pc = IF v = "v3" THEN "init" ELSE "check"
  /\ initThrew = FALSE
  /\ input = None
  /\ jd = None
  /\ rs = <<>>
  /\ planets = <<>>
  /\ hres = None
  /\ houses = None
  /\ angles = None
  /\ status = 0
  /\ error = ""
  /\ call = NoCall
  /\ chat = NoChat

\* res.status(code).json({ error })
Fail(code, msg) ==
  /\ pc' = "done"
  /\ status' = code
  /\ error' = msg

\* ------------------------------------------------------------------------
\* v3: the validated handler with timezone support
\* ------------------------------------------------------------------------

DefaultDate == <<"1", "9", "9", "2", "-", "0", "9", "-", "0", "8">>
DefaultTime == <<"1", "2", ":", "0", "0", ":", "0", "0">>
DefaultLat == -349285
DefaultLon == 1386007

\* (q.x && String(q.x)) || dflt
OrDefault(o, dflt) == IF IsSome(o) /\ Val(o) # <<>> THEN Val(o) ELSE dflt

\* q.x != null ? Number(q.x) : dflt
NumberOrDefault(o, dflt) == IF IsSome(o) THEN JsNumber(Val(o)) ELSE dflt

\* The inputs with defaults.
effectiveInput(q0) ==
  [ date |-> OrDefault(q0.date, DefaultDate),
    time |-> OrDefault(q0.time, DefaultTime),
    lat |-> NumberOrDefault(q0.lat, DefaultLat),
    lon |-> NumberOrDefault(q0.lng, DefaultLon),
    hsys |-> clampHouseSystem(OrDefault(q0.house_system, OrDefault(q0.hsys, <<"P">>))),
    tz |-> NumberOrDefault(q0.tz_offset_minutes, 0) ]

\* !Number.isFinite(x) || x < lo || x > hi
OutOfRange(x, lo, hi) == ~isFinite(x) \/ x < lo * Scale \/ x > hi * Scale

\* The first failing validation of v3, "" when all pass.
validationError(in) ==
  IF ~isValidDateStr(in.date) THEN "Invalid 'date'. Use YYYY-MM-DD."
  ELSE IF ~isValidTimeStr(in.time) THEN "Invalid 'time'. Use HH:MM or HH:MM:SS (24h)."
  ELSE IF OutOfRange(in.lat, -90, 90) THEN "Invalid 'lat'. Range -90 to 90."
  ELSE IF OutOfRange(in.lon, -180, 180) THEN "Invalid 'lng'. Range -180 to 180."
  ELSE IF OutOfRange(in.tz, -900, 900) THEN "Invalid 'tz_offset_minutes'. Range -900 to 900."
  ELSE IF ~isHouseLetter(in.hsys)
    THEN "Invalid 'house_system' (or 'hsys'). Provide a single letter code like 'P'."
  ELSE ""

\* h * 3600 + min * 60 + sec, the local time of day in seconds.
localSeconds(h, min, sec) ==
  IF ~isFinite(h) \/ ~isFinite(min) \/ ~isFinite(sec) THEN NaN
  ELSE h * 3600 + min * 60 + sec

\* const [hh, mm, ss = '00'] = time.split(':')
timeSeconds(time) ==
  LET parts == Split(time, ":")
  IN  localSeconds(PartNumber(parts, 1), PartNumber(parts, 2),
                   IF Len(parts) >= 3 THEN PartNumber(parts, 3) ELSE 0)

\* julianDay(y, m, d, utHours) with utHours = localHours - tzOffsetMinutes / 60:
\* the value is day - 1/2 + (localSec - 60 * tz / Scale) / 86400.
julianDay(date, time, tz) ==
  LET parts == Split(date, "-")
  IN  [ day |-> julianDay0(PartNumber(parts, 1), PartNumber(parts, 2), PartNumber(parts, 3)),
        localSec |-> timeSeconds(time),
        tz |-> tz ]

\* utHours = localHours - tzOffsetMinutes / 60, in seconds, for a whole
\* number of minutes.
utSeconds(localSec, tzMinutes) == localSec - 60 * tzMinutes

\* julianDay(y, m, d, utHours) = jd0 - 0.5 + utHours / 24: the value is
\* day + sec / 86400 days.
julianDayUT(y, m, d, utSec) == [day |-> julianDay0(y, m, d), sec |-> utSec - 43200]

\* try { if (SET_EPHE_PATH) SET_EPHE_PATH(ephPath); } catch {}
V3SetEphePath ==
  /\ build.variant = "v3"
  /\ pc = "init"
  /\ \E threw \in BOOLEAN :
       /\ threw => (build.SET_EPHE_PATH /\ devs < MaxDev)
       /\ initThrew' = threw
       /\ devs' = devs + Cost(threw)
  /\ pc' = "validate"
  /\ UNCHANGED << chat, call, build, q, input, jd, rs, planets, hres, houses, angles, status, error >>

\* Inputs with defaults, validation, parsing, jd_ut.
V3Validate ==
  /\ build.variant = "v3"
  /\ pc = "validate"
  /\ LET in  == effectiveInput(q)
         msg == validationError(in)
     IN  /\ input' = Some(in)
         /\ IF msg # ""
              THEN Fail(400, msg) /\ jd' = jd
              ELSE /\ jd' = Some(julianDay(in.date, in.time, in.tz))
                   /\ pc' = "calc"
                   /\ UNCHANGED << status, error >>
  /\ UNCHANGED << chat, call, build, q, devs, initThrew, rs, planets, hres, houses, angles >>

\* The mutant of planetV3 that takes the name of the next body.
planetV3_NextName(b, r) ==
  LET lonDeg == extractLongitude(r)
      name   == bodies[(b % NumBodies) + 1]
  IN  IF lonDeg = None
        THEN [ name |-> name, degree |-> NaN, sign |-> "Unknown",
               house |-> None, retro |-> Some(retroV3(r)) ]
        ELSE [ name |-> name, degree |-> degNorm(Val(lonDeg)),
               sign |-> signName(degNorm(Val(lonDeg))),
               house |-> None, retro |-> Some(retroV3(r)) ]

planetV3(b, r) ==
  LET lonDeg == extractLongitude(r)
  IN  IF lonDeg = None
        THEN [ name |-> bodies[b], degree |-> NaN, sign |-> "Unknown",
               house |-> None, retro |-> Some(retroV3(r)) ]
        ELSE [ name |-> bodies[b], degree |-> degNorm(Val(lonDeg)),
               sign |-> signName(degNorm(Val(lonDeg))),
               house |-> None, retro |-> Some(retroV3(r)) ]

\* One turn of for (const b of bodies): the CALC_UT call and the push.
V3Calc ==
  /\ build.variant = "v3"
  /\ pc = "calc"
  /\ LET b == Len(rs) + 1
     IN  \E r \in CalcOutcomes("v3", b, MaxDev - devs) :
           /\ rs' = Append(rs, r)
           /\ devs' = devs + Cost(r # NominalCalc("v3", b))
           /\ IF r.t = "throw"
                THEN Fail(500, "provider error") /\ planets' = planets
                ELSE /\ planets' = Append(planets, planetV3(b, r))
                     /\ pc' = IF b = NumBodies THEN "houses" ELSE "calc"
                     /\ UNCHANGED << status, error >>
  /\ UNCHANGED << chat, call, build, q, initThrew, input, jd, hres, houses, angles >>

\* The houses block and the response.
V3Houses ==
  /\ build.variant = "v3"
  /\ pc = "houses"
  /\ IF ~build.HOUSES_EX
       THEN /\ UNCHANGED << devs, hres, houses, angles, planets, error >>
            /\ status' = 200
            /\ pc' = "done"
       ELSE \E h \in HousesOutcomes("v3", MaxDev - devs) :
              /\ hres' = Some(h)
              /\ devs' = devs + Cost(h # NominalHouses("v3"))
              /\ IF h.t = "throw"
                   THEN Fail(500, "provider error") /\ UNCHANGED << houses, angles, planets >>
                   ELSE LET cuspsRaw == cuspsRawV3(h)
                            hs       == IF IsSome(cuspsRaw) THEN Some(cuspsOf(Val(cuspsRaw))) ELSE None
                        IN  /\ houses' = hs
                            /\ angles' = Some([asc |-> optAngle(ascRawV3(h)), mc |-> optAngle(mcRawV3(h))])
                            /\ planets' = IF IsSome(hs) /\ Len(Val(hs)) = 12
                                            THEN assignHousesV3(planets, Val(hs))
                                            ELSE planets
                            /\ status' = 200
                            /\ pc' = "done"
                            /\ error' = error
  /\ UNCHANGED << chat, call, build, q, initThrew, input, jd, rs >>

\* ------------------------------------------------------------------------
\* v1 and v2: the earlier handlers
\* ------------------------------------------------------------------------

\* The mutant of MissingRequired that forgets lng.
MissingRequired_NoLng(q0) ==
  \E f \in {"date", "time", "lat"} : ~IsSome(q0[f]) \/ Val(q0[f]) = <<>>

\* !date || !time || !latStr || !lngStr
MissingRequired(q0) ==
  \E f \in {"date", "time", "lat", "lng"} : ~IsSome(q0[f]) \/ Val(q0[f]) = <<>>

MissingMessage == "Missing date, time, lat, or lng"

V1Check ==
  /\ build.variant = "v1"
  /\ pc = "check"
  /\ IF MissingRequired(q)
       THEN Fail(400, MissingMessage)
       ELSE pc' = "init" /\ UNCHANGED << status, error >>
  /\ UNCHANGED << chat, call, build, q, devs, initThrew, input, jd, rs, planets, hres, houses, angles >>

V2Check ==
  /\ build.variant = "v2"
  /\ pc = "check"
  /\ IF MissingRequired(q)
       THEN Fail(400, MissingMessage)
       ELSE pc' = "init" /\ UNCHANGED << status, error >>
  /\ UNCHANGED << chat, call, build, q, devs, initThrew, input, jd, rs, planets, hres, houses, angles >>

\* The ephemeris path (a throw is swallowed), the date and time parts, and
\* jd_ut from the provider's julday, which computes the Gregorian day number.
V1Prepare ==
  /\ build.variant = "v1"
  /\ pc = "init"
  /\ \E threw \in BOOLEAN :
       /\ threw => devs < MaxDev
       /\ ~build.SET_EPHE_PATH => threw = FALSE
       /\ initThrew' = (threw \/ ~build.SET_EPHE_PATH)
       /\ devs' = devs + Cost(threw)
  /\ jd' = Some(julianDay(Val(q.date), Val(q.time), 0))
  /\ pc' = "calc"
  /\ UNCHANGED << chat, call, build, q, input, rs, planets, hres, houses, angles, status, error >>

\* As v1, with jd_ut from JULDAY or from juldayFallback.
V2Prepare ==
  /\ build.variant = "v2"
  /\ pc = "init"
  /\ \E threw \in BOOLEAN :
       /\ threw => (build.SET_EPHE_PATH /\ devs < MaxDev)
       /\ initThrew' = threw
       /\ devs' = devs + Cost(threw)
  /\ jd' = Some(julianDay(Val(q.date), Val(q.time), 0))
  /\ pc' = "calc"
  /\ UNCHANGED << chat, call, build, q, input, rs, planets, hres, houses, angles, status, error >>

planetV1(b, r) ==
  [ name |-> bodies[b], degree |-> degNorm(lonDegV1(r)),
    sign |-> signName(degNorm(lonDegV1(r))), house |-> None,
    retro |-> IF r.t = "obj" THEN r.retrograde ELSE None ]

planetV2(b, r) ==
  [ name |-> bodies[b], degree |-> degNorm(lonDegV2(r)),
    sign |-> signName(degNorm(lonDegV2(r))), house |-> None,
    retro |-> Some(retroV2(r)) ]

\* v1 destructures the result: null and undefined throw a TypeError.
V1Calc ==
  /\ build.variant = "v1"
  /\ pc = "calc"
  /\ LET b == Len(rs) + 1
     IN  \E r \in CalcOutcomes("v1", b, MaxDev - devs) :
           /\ rs' = Append(rs, r)
           /\ devs' = devs + Cost(r # NominalCalc("v1", b))
           /\ IF r.t \in {"throw", "null", "undefined"}
                THEN Fail(500, IF r.t = "throw" THEN "provider error" ELSE "TypeError")
                     /\ planets' = planets
                ELSE /\ planets' = Append(planets, planetV1(b, r))
                     /\ pc' = IF b = NumBodies THEN "houses" ELSE "calc"
                     /\ UNCHANGED << status, error >>
  /\ UNCHANGED << chat, call, build, q, initThrew, input, jd, hres, houses, angles >>

V2Calc ==
  /\ build.variant = "v2"
  /\ pc = "calc"
  /\ LET b == Len(rs) + 1
     IN  \E r \in CalcOutcomes("v2", b, MaxDev - devs) :
           /\ rs' = Append(rs, r)
           /\ devs' = devs + Cost(r # NominalCalc("v2", b))
           /\ IF r.t = "throw"
                THEN Fail(500, "provider error") /\ planets' = planets
                ELSE /\ planets' = Append(planets, planetV2(b, r))
                     /\ pc' = IF b = NumBodies THEN "houses" ELSE "calc"
                     /\ UNCHANGED << status, error >>
  /\ UNCHANGED << chat, call, build, q, initThrew, input, jd, hres, houses, angles >>

\* houses, angles, house numbers and the response, given the houses result h
\* and the cusps and angles read from it; v1 and v2 always send houses.
RespondV12(h, cuspsRaw, ascRaw, mcRaw) ==
  LET cs == IF IsSome(cuspsRaw) THEN cuspsOf(Val(cuspsRaw)) ELSE <<>>
  IN  /\ houses' = Some(cs)
      /\ angles' = Some([asc |-> optAngle(ascRaw), mc |-> optAngle(mcRaw)])
      /\ planets' = IF Len(cs) = 12 THEN assignHousesV12(planets, cs) ELSE planets
      /\ status' = 200
      /\ pc' = "done"
      /\ error' = error

\* v1 calls sweph.swe_houses_ex directly: a build without it throws.
V1Houses ==
  /\ build.variant = "v1"
  /\ pc = "houses"
  /\ IF ~build.HOUSES_EX
       THEN Fail(500, "TypeError") /\ UNCHANGED << devs, hres, houses, angles, planets >>
       ELSE \E h \in HousesOutcomes("v1", MaxDev - devs) :
              /\ hres' = Some(h)
              /\ devs' = devs + Cost(h # NominalHouses("v1"))
              /\ IF h.t = "throw"
                   THEN Fail(500, "provider error") /\ UNCHANGED << houses, angles, planets >>
                   ELSE RespondV12(h, cuspsRawV1(h),
                                   IF h.t = "null" THEN None ELSE h.ascendant,
                                   IF h.t = "null" THEN None ELSE h.mc)
  /\ UNCHANGED << chat, call, build, q, initThrew, input, jd, rs >>

\* v2: hres = HOUSES_EX ? HOUSES_EX(...) : null
V2Houses ==
  /\ build.variant = "v2"
  /\ pc = "houses"
  /\ IF ~build.HOUSES_EX
       THEN RespondV12(HNull, None, None, None) /\ UNCHANGED << devs, hres >>
       ELSE \E h \in HousesOutcomes("v2", MaxDev - devs) :
              /\ hres' = Some(h)
              /\ devs' = devs + Cost(h # NominalHouses("v2"))
              /\ IF h.t = "throw"
                   THEN Fail(500, "provider error") /\ UNCHANGED << houses, angles, planets >>
                   ELSE RespondV12(h, cuspsRawV2(h), ascRawV2(h), mcRawV2(h))
  /\ UNCHANGED << chat, call, build, q, initThrew, input, jd, rs >>

Next ==
  \/ V1Check
  \/ V1Prepare
  \/ V1Calc
  \/ V1Houses
  \/ V2Check
  \/ V2Prepare
  \/ V2Calc
  \/ V2Houses
  \/ V3SetEphePath
  \/ V3Validate
  \/ V3Calc
  \/ V3Houses

Spec == Init /\ [][Next]_vars

\* ------------------------------------------------------------------------
\* The helpers applied on their own
\* ------------------------------------------------------------------------

\* Degrees from -MaxDeg to MaxDeg are tried.
MaxDeg == 1080

\* Provider results of every documented shape, with and without finite values.
ExtractInputs ==
  {JsNull, JsUndefined}
    \cup {JsNum(x) : x \in {NaN, 0, 42, -30, 725}}
    \cup {JsArr(a) : a \in {<<>>, <<NaN>>, <<NaN, 0, 1, -1>>, <<0>>, <<44>>, <<44, 0, 1, -1>>}}
    \cup { [Blank EXCEPT !.data = d, !.longitude = lg, !.lon = ln] :
             d \in {None, Some(<<>>), Some(<<NaN>>), Some(<<0>>), Some(<<11, 0, 1, -1>>)},
             lg \in {None, Some(NaN), Some(0), Some(22)},
             ln \in {None, Some(NaN), Some(0), Some(33)} }

\* Dates around year ends, leap days and century years; local times and
\* offsets that fall before 0h and after 24h UT.
JdYears == {1899, 1900, 1901, 1992, 1999, 2000, 2001}
JdLocalSeconds == {0, 3600, 43200, 82800}
JdOffsets == {-600, 0, 600}
JdInputs ==
  { [y |-> y, m |-> m, d |-> d, localSec |-> ls, tz |-> tz] :
      y \in JdYears, m \in 1..12, d \in 1..31, ls \in JdLocalSeconds, tz \in JdOffsets }

\* Cusp sequences: twelve house widths laid out from a start degree, and two
\* sequences that are not in cyclic order.
CuspWidths ==
  { [k \in 1..12 |-> 30],
    << 10, 50, 30, 30, 20, 40, 30, 30, 10, 50, 35, 25 >> }
CuspStarts == {0, 1, 29, 30, 95, 180, 200, 271, 330, 359}

RECURSIVE WidthSum(_, _)
WidthSum(w, k) == IF k = 0 THEN 0 ELSE WidthSum(w, k - 1) + w[k]

CuspsFrom(start, w) == [k \in 1..12 |-> (start + WidthSum(w, k - 1)) % 360]

HouseInputs ==
  { [deg |-> d, cusps |-> c] :
      d \in 0..359,
      c \in {CuspsFrom(st, w) : st \in CuspStarts, w \in CuspWidths}
               \cup {Degenerate, Overlapping} }

\* No request is handled while a helper is applied on its own.
HandlerIdle ==
  /\ build = [variant |-> "v3", HOUSES_EX |-> TRUE, SET_EPHE_PATH |-> TRUE]
  /\ q = NominalQuery
  /\ pc = "idle"
  /\ devs = 0
  /\ initThrew = FALSE
  /\ input = None
  /\ jd = None
  /\ rs = <<>>
  /\ planets = <<>>
  /\ hres = None
  /\ houses = None
  /\ angles = None
  /\ status = 0
  /\ error = ""

hvars ==
  << build, q, pc, devs, initThrew, input, jd, rs, planets, hres, houses,
     angles, status, error, chat >>

InitFn ==
  /\ HandlerIdle
  /\ chat = NoChat
  /\ \/ \E r \in ExtractInputs :
          call = [fn |-> "extractLongitude", arg |-> r, out |-> None, done |-> FALSE]
     \/ \E x \in (0 - MaxDeg)..MaxDeg :
          call = [fn |-> "degNorm", arg |-> x, out |-> 0, done |-> FALSE]
     \/ \E x \in (0 - MaxDeg)..MaxDeg :
          call = [fn |-> "signName", arg |-> x, out |-> "", done |-> FALSE]
     \/ \E a \in HouseInputs :
          call = [fn |-> "houseNum", arg |-> a, out |-> 0, done |-> FALSE]
     \/ \E a \in JdInputs :
          call = [fn |-> "julianDay", arg |-> a, out |-> [day |-> 0, sec |-> 0], done |-> FALSE]

ApplyExtractLongitude ==
  /\ call.fn = "extractLongitude" /\ ~call.done
  /\ call' = [call EXCEPT !.out = extractLongitude(call.arg), !.done = TRUE]
  /\ UNCHANGED hvars

ApplyDegNorm ==
  /\ call.fn = "degNorm" /\ ~call.done
  /\ call' = [call EXCEPT !.out = degNorm(call.arg), !.done = TRUE]
  /\ UNCHANGED hvars

ApplySignName ==
  /\ call.fn = "signName" /\ ~call.done
  /\ call' = [call EXCEPT !.out = signName(call.arg), !.done = TRUE]
  /\ UNCHANGED hvars

ApplyJulianDay ==
  /\ call.fn = "julianDay" /\ ~call.done
  /\ call' = [call EXCEPT
                !.out = julianDayUT(call.arg.y, call.arg.m, call.arg.d,
                                    utSeconds(call.arg.localSec, call.arg.tz)),
                !.done = TRUE]
  /\ UNCHANGED hvars

\* The cusps mapping and the house loop for one planet degree.
ApplyHouseNum ==
  /\ call.fn = "houseNum" /\ ~call.done
  /\ call' = [call EXCEPT !.out = houseNum(call.arg.deg, cuspsOf(call.arg.cusps)),
                          !.done = TRUE]
  /\ UNCHANGED hvars

NextFn ==
  \/ ApplyExtractLongitude
  \/ ApplyDegNorm
  \/ ApplySignName
  \/ ApplyJulianDay
  \/ ApplyHouseNum

SpecFn == InitFn /\ [][NextFn]_vars

\* ------------------------------------------------------------------------
\* The chat handler
\* ------------------------------------------------------------------------

LowerChar(c) ==
  IF \E k \in 1..26 : Upper[k] = c
    THEN Lower[CHOOSE k \in 1..26 : Upper[k] = c]
    ELSE c

\* String.prototype.toLowerCase
toLowerCase(s) == [k \in 1..Len(s) |-> LowerChar(s[k])]

\* String.prototype.includes
includes(text, pat) ==
  \E i \in 1..(Len(text) - Len(pat) + 1) : SubSeq(text, i, i + Len(pat) - 1) = pat

\* The five guidance texts (the typographic apostrophe of the source is
\* written ').
GuidanceCareer ==
  "Your MC and 10th house themes illuminate your public path. Consider the sign on your Midheaven and any planets in the 10th."
GuidanceLove ==
  "Look to Venus and the 7th house for partnership patterns. The ruler of the 7th and aspects to Venus offer further nuance."
GuidancePurpose ==
  "Your Sun's sign and house show core vitality; the North Node can hint at a growth trajectory."
GuidanceHealth ==
  "The 6th house and its ruler speak to daily rhythms and care. Observe planets there for habits that support you."
GuidanceGeneric ==
  "Ask about love, career, purpose, timing, or any part of your chart you're drawn to. I will focus my reading accordingly."

\* The mutant of guidanceFor that looks for love before career.
guidanceFor_LoveFirst(text) ==
  IF includes(text, <<"l", "o", "v", "e">>) \/ includes(text, <<"r", "e", "l", "a", "t", "i", "o", "n", "s", "h", "i", "p">>) THEN GuidanceLove
  ELSE IF includes(text, <<"c", "a", "r", "e", "e", "r">>) \/ includes(text, <<"w", "o", "r", "k">>) THEN GuidanceCareer
  ELSE IF includes(text, <<"p", "u", "r", "p", "o", "s", "e">>) \/ includes(text, <<"l", "i", "f", "e">>) THEN GuidancePurpose
  ELSE IF includes(text, <<"h", "e", "a", "l", "t", "h">>) \/ includes(text, <<"w", "e", "l", "l", "b", "e", "i", "n", "g">>) THEN GuidanceHealth
  ELSE GuidanceGeneric

\* The if / else if chain on text = String(message).toLowerCase().
guidanceFor(text) ==
  IF includes(text, <<"c", "a", "r", "e", "e", "r">>) \/ includes(text, <<"w", "o", "r", "k">>) THEN GuidanceCareer
  ELSE IF includes(text, <<"l", "o", "v", "e">>) \/ includes(text, <<"r", "e", "l", "a", "t", "i", "o", "n", "s", "h", "i", "p">>) THEN GuidanceLove
  ELSE IF includes(text, <<"p", "u", "r", "p", "o", "s", "e">>) \/ includes(text, <<"l", "i", "f", "e">>) THEN GuidancePurpose
  ELSE IF includes(text, <<"h", "e", "a", "l", "t", "h">>) \/ includes(text, <<"w", "e", "l", "l", "b", "e", "i", "n", "g">>) THEN GuidanceHealth
  ELSE GuidanceGeneric

\* The degree sign and the bullet of the source, written in ASCII.
DegreeSign == "deg"
Bullet == " * "

\* x.toFixed(2) followed by the degree sign, for a whole number of degrees.
fmtDeg(x) == IF isFinite(x) THEN ToString(x) \o ".00" \o DegreeSign ELSE "-"

\* H${p.house ?? '-'}
houseText(h) == IF IsSome(h) THEN "H" \o ToString(Val(h)) ELSE "H-"

\* chart?.planets?.find((p) => p.name === name), None when there is none.
findPlanet(chart, name) ==
  LET ps == chart.planets
      at == {k \in 1..Len(ps) : ps[k].name = name}
  IN  IF at = {} THEN None
      ELSE Some(ps[CHOOSE k \in at : \A j \in at : k <= j])

planetPart(label, p) ==
  label \o " " \o fmtDeg(p.degree) \o " " \o p.sign \o " " \o houseText(p.house)

RECURSIVE join(_, _)
join(parts, sep) ==
  IF parts = <<>> THEN ""
  ELSE IF Len(parts) = 1 THEN parts[1]
  ELSE parts[1] \o sep \o join(Tail(parts), sep)

\* makeSummary: the catch gives '' when chart.planets has no find method.
makeSummary(chart) ==
  IF chart.planetsKind = "number" THEN ""
  ELSE
    LET sun  == findPlanet(chart, "Sun")
        moon == findPlanet(chart, "Moon")
        p1   == IF IsSome(sun) THEN <<planetPart("Sun", Val(sun))>> ELSE <<>>
        p2   == IF IsSome(moon) THEN <<planetPart("Moon", Val(moon))>> ELSE <<>>
        p3   == IF IsSome(chart.asc)
                  THEN <<"Asc " \o fmtDeg(Val(chart.asc).degree) \o " " \o Val(chart.asc).sign>>
                  ELSE <<>>
    IN  join(p1 \o p2 \o p3, Bullet)

\* The mutant of replyOf that leaves out the closing question.
replyOf_NoClosing(summary, guidance) ==
  "Coaler: " \o "I see your chart: " \o summary \o "." \o " " \o guidance

\* const reply = `Coaler: ${opening} ${guidance} What would you like to explore next?`
replyOf(summary, guidance) ==
  "Coaler: " \o "I see your chart: " \o summary \o "." \o " " \o guidance
    \o " What would you like to explore next?"

\* Sample charts: planetsKind is "array", "absent" or "number" (a value
\* without a find method); "falsy" is a chart that is null, 0 or ''.
ChartOf(kind, ps, asc) == [planetsKind |-> kind, planets |-> ps, asc |-> asc]
SunPlanet == [name |-> "Sun", degree |-> 166, sign |-> "Virgo", house |-> Some(5)]
MoonPlanet == [name |-> "Moon", degree |-> 355, sign |-> "Pisces", house |-> None]
NaNPlanet == [name |-> "Sun", degree |-> NaN, sign |-> "Unknown", house |-> None]
AscAngle == [degree |-> 100, sign |-> "Cancer"]
ChatCharts ==
  { ChartOf("array", <<SunPlanet, MoonPlanet>>, Some(AscAngle)),
    ChartOf("array", <<MoonPlanet, NaNPlanet>>, None),
    ChartOf("array", <<>>, Some(AscAngle)),
    ChartOf("absent", <<>>, None),
    ChartOf("number", <<>>, Some(AscAngle)),
    ChartOf("falsy", <<>>, None) }

\* Sample messages: keywords of the four topics in lower, upper and mixed
\* case, inside longer words, alone and in pairs; no keyword; the empty string.
ChatWords ==
  { <<"c", "a", "r", "e", "e", "r">>, <<"W", "O", "R", "K">>, <<"L", "o", "v", "e">>, <<"r", "e", "l", "a", "t", "i", "o", "n", "s", "h", "i", "p">>, <<"P", "u", "r", "p", "o", "s", "e">>, <<"l", "i", "f", "e">>,
    <<"H", "E", "A", "L", "T", "H">>, <<"w", "e", "l", "l", "b", "e", "i", "n", "g">>, <<"t", "i", "m", "i", "n", "g">>, <<"n", "e", "t", "w", "o", "r", "k">>, <<"g", "l", "o", "v", "e", "s">> }
ChatMessages ==
  ChatWords
    \cup { a \o <<" ", "a", "n", "d", " ">> \o b : a \in ChatWords, b \in ChatWords }
    \cup { <<"W", "h", "a", "t", " ", "a", "b", "o", "u", "t", " ", "m", "y", " ", "c", "a", "r", "e", "e", "r", " ", "a", "n", "d", " ", "l", "o", "v", "e", " ", "l", "i", "f", "e", "?">>, <<"C", "a", "r", "e", "r">>, <<>> }

\* req.body: undefined, a parsed object with optional message and chart, or
\* the runtime's body getter throwing on an unparsable body.
ChatBodies ==
  { [t |-> "undefined", message |-> None, chart |-> None],
    [t |-> "throw", message |-> None, chart |-> None] }
    \cup { [t |-> "obj", message |-> m, chart |-> c] :
             m \in {None} \cup {Some(x) : x \in ChatMessages},
             c \in {None} \cup {Some(x) : x \in ChatCharts} }

ChatMethods == {"GET", "POST", "PUT"}

\* !message, !chart
noMessage(b) == b.message = None \/ Val(b.message) = <<>>
noChart(b) == b.chart = None \/ Val(b.chart).planetsKind = "falsy"

InitChat ==
  /\ HandlerIdle
  /\ call = NoCall
  /\ \E m \in ChatMethods, b \in ChatBodies :
       chat = [NoChat EXCEPT !.pc = "method", !.method = m, !.body = b]

\* if (req.method !== 'POST') return res.status(405).json({ error: 'Use POST' })
ChatMethod ==
  /\ chat.pc = "method"
  /\ chat' = IF chat.method # "POST"
               THEN [chat EXCEPT !.pc = "done", !.status = 405, !.error = "Use POST"]
               ELSE [chat EXCEPT !.pc = "body"]
  /\ UNCHANGED << call, build, q, pc, devs, initThrew, input, jd, rs, planets, hres,
                  houses, angles, status, error >>

\* const { message, chart } = req.body || {}; the 400 check; the catch-all.
ChatBody ==
  /\ chat.pc = "body"
  /\ chat' = IF chat.body.t = "throw"
               THEN [chat EXCEPT !.pc = "done", !.status = 500, !.error = "Invalid JSON"]
             ELSE IF noMessage(chat.body) \/ noChart(chat.body)
               THEN [chat EXCEPT !.pc = "done", !.status = 400,
                                 !.error = "Provide { message, chart } in JSON body."]
             ELSE [chat EXCEPT !.pc = "compose"]
  /\ UNCHANGED << call, build, q, pc, devs, initThrew, input, jd, rs, planets, hres,
                  houses, angles, status, error >>

\* The summary, the guidance and the 200 reply.
ChatCompose ==
  /\ chat.pc = "compose"
  /\ LET summary  == makeSummary(Val(chat.body.chart))
         guidance == guidanceFor(toLowerCase(Val(chat.body.message)))
     IN  chat' = [chat EXCEPT !.pc = "done", !.status = 200, !.summary = summary,
                              !.guidance = guidance,
                              !.reply = replyOf(summary, guidance)]
  /\ UNCHANGED << call, build, q, pc, devs, initThrew, input, jd, rs, planets, hres,
                  houses, angles, status, error >>

NextChat ==
  \/ ChatMethod
  \/ ChatBody
  \/ ChatCompose

SpecChat == InitChat /\ [][NextChat]_vars

\* ------------------------------------------------------------------------
\* Claims
\* ------------------------------------------------------------------------

Responded == pc = "done"

CuspDegrees(hs) == [k \in 1..Len(hs) |-> hs[k].degree]

\* House i (1..12) holds deg: [cusp i, cusp i+1), wrapping when cusp i > cusp i+1.
HouseHolds(deg, cs, i) ==
  LET s == cs[i].degree
      e == cs[(i % 12) + 1].degree
  IN  IF s > e THEN (deg >= s \/ deg < e) ELSE (s <= deg /\ deg < e)

\* The lowest-numbered house that holds deg, 12 when none does.
LowestHouse(deg, cs) ==
  LET holding == {i \in 1..12 : HouseHolds(deg, cs, i)}
  IN  IF holding = {} THEN 12
      ELSE CHOOSE i \in holding : \A j \in holding : i <= j

\* C1: with exactly 12 cusps, every planet with a finite degree gets the
\* lowest-numbered house whose half-open, wrap-aware interval holds its degree,
\* and house 12 when none does; with equal 30-degree cusps from 0 a planet at
\* 355 is in house 12 and one at 5 in house 1; with cusp[11] = 350 and
\* cusp[0] = 20 a planet at 5 is in house 12.
C1_HouseAssignment ==
  (Responded /\ status = 200 /\ IsSome(houses) /\ Len(Val(houses)) = 12) =>
    \A k \in 1..Len(planets) :
      isFinite(planets[k].degree) =>
        /\ planets[k].house = Some(LowestHouse(planets[k].degree, Val(houses)))
        /\ CuspDegrees(Val(houses)) = Equal30 =>
             /\ planets[k].degree = 355 => planets[k].house = Some(12)
             /\ planets[k].degree = 5 => planets[k].house = Some(1)
        /\ (Val(houses)[12].degree = 350 /\ Val(houses)[1].degree = 20) =>
             (planets[k].degree = 5 => planets[k].house = Some(12))

C1_Witness ==
  /\ Responded /\ status = 200 /\ IsSome(houses) /\ Len(Val(houses)) = 12
  /\ Val(houses)[12].degree = 350 /\ Val(houses)[1].degree = 20
  /\ \E k \in 1..Len(planets) : planets[k].degree = 5 /\ planets[k].house = Some(12)

RequiredFields == {"date", "time", "lat", "lng"}

Omits(q0) == \E f \in RequiredFields : q0[f] = None

NoComputation == jd = None /\ rs = <<>> /\ hres = None

CalcFailed(r) == r.t = "throw" \/ r = [Blank EXCEPT !.data = Some(<<>>)]

\* C3: a calc failure for one body leaves a 200 chart in which the other nine
\* bodies carry their computed degree and sign.
C3_Claim ==
  (Responded /\ status # 400 /\ \E k \in 1..Len(rs) : CalcFailed(rs[k])) =>
    /\ status = 200
    /\ Len(planets) = NumBodies
    /\ \A j \in 1..NumBodies :
         ~CalcFailed(rs[j]) =>
           (isFinite(planets[j].degree) /\ \E n \in 1..12 : signs[n] = planets[j].sign)

NoCalcThrew == \A k \in 1..Len(rs) : rs[k].t # "throw"

\* House computation cannot run: the build lacks houses_ex or the call fails.
HousesCannotRun == ~build.HOUSES_EX \/ hres = Some(HThrow)

\* C4: when house computation cannot run the response is still 200 with all
\* planets and without houses and angles; a failed provider initialization
\* alone never gives a 500.
C4_Claim ==
  (build.variant = "v3" /\ Responded /\ status # 400 /\ NoCalcThrew) =>
    /\ HousesCannotRun =>
         (status = 200 /\ Len(planets) = NumBodies /\ houses = None)
    /\ (initThrew /\ hres # Some(HThrow)) => status = 200

\* The longitude the documented shapes hold, in the priority order data
\* sequence, longitude, lon, array, plain number; None when none is finite.
DocumentedLongitude(r) ==
  IF r.t = "obj" /\ IsSome(r.data) /\ Len(Val(r.data)) >= 1 /\ Val(r.data)[1] # NaN
    THEN Some(Val(r.data)[1])
  ELSE IF r.t = "obj" /\ IsSome(r.longitude) /\ Val(r.longitude) # NaN THEN r.longitude
  ELSE IF r.t = "obj" /\ IsSome(r.lon) /\ Val(r.lon) # NaN THEN r.lon
  ELSE IF r.t = "arr" /\ Len(r.arr) >= 1 /\ r.arr[1] # NaN THEN Some(r.arr[1])
  ELSE IF r.t = "num" /\ r.num # NaN THEN Some(r.num)
  ELSE None

\* C5: extractLongitude returns the longitude of every documented shape that
\* holds a finite value (a plain finite number x yields x), in the fixed
\* priority order, and absent for null, {}, NaN and results with no finite
\* value.
C5_Claim ==
  (call.fn = "extractLongitude" /\ call.done) =>
    call.out = DocumentedLongitude(call.arg)

\* What v3 reports for a body whose provider result r has a longitude.
HasLongitude(r) == r.t # "throw" /\ extractLongitude(r) # None

\* C6: in v3 a body whose longitude is absent is reported with sign "Unknown",
\* a non-finite degree and no house; it never makes the request fail (a 500
\* only follows a provider call that threw), and every other body carries its
\* normalized degree, its zodiac sign and, with 12 cusps, its house, each
\* determined by that body's own result and the cusps alone.
C6_AbsentBody ==
  build.variant = "v3" =>
    /\ (Responded /\ status = 500) => (~NoCalcThrew \/ hres = Some(HThrow))
    /\ (Responded /\ status = 200) => Len(planets) = NumBodies
    /\ \A k \in 1..Len(planets) :
         LET twelve == Responded /\ status = 200 /\ IsSome(houses) /\ Len(Val(houses)) = 12
         IN  IF HasLongitude(rs[k])
               THEN LET d == Val(extractLongitude(rs[k]))
                        n == ((d % 360) + 360) % 360
                    IN  /\ planets[k].degree = n
                        /\ planets[k].sign = signs[(n \div 30) + 1]
                        /\ planets[k].house =
                             IF twelve THEN Some(LowestHouse(n, Val(houses))) ELSE None
               ELSE /\ planets[k].sign = "Unknown"
                    /\ ~isFinite(planets[k].degree)
                    /\ planets[k].house = None

C6_Witness ==
  /\ build.variant = "v3" /\ Responded /\ status = 200
  /\ IsSome(houses) /\ Len(Val(houses)) = 12
  /\ \E k \in 1..NumBodies :
       /\ ~HasLongitude(rs[k])
       /\ planets[k].sign = "Unknown" /\ planets[k].house = None
       /\ \A j \in (1..NumBodies) \ {k} : planets[j].house # None

InputNames == {"date", "time", "lat", "lng", "tz_offset_minutes", "house_system"}

IsLeap(y) == (y % 4 = 0 /\ y % 100 # 0) \/ y % 400 = 0

DaysIn(y, m) ==
  IF m = 2 THEN (IF IsLeap(y) THEN 29 ELSE 28)
  ELSE IF m \in {4, 6, 9, 11} THEN 30 ELSE 31

\* s has the form YYYY-MM-DD.
IsYMD(s) ==
  Len(s) = 10 /\ s[5] = "-" /\ s[8] = "-"
    /\ AllDigits(SubSeq(s, 1, 4)) /\ AllDigits(SubSeq(s, 6, 7)) /\ AllDigits(SubSeq(s, 9, 10))

\* s has the form HH:MM or HH:MM:SS.
IsHMS(s) ==
  /\ Len(s) \in {5, 8} /\ s[3] = ":"
  /\ AllDigits(SubSeq(s, 1, 2)) /\ AllDigits(SubSeq(s, 4, 5))
  /\ Len(s) = 8 => (s[6] = ":" /\ AllDigits(SubSeq(s, 7, 8)))

\* A date of the right form whose month or day is out of range.
DateOutOfRange(s) ==
  IsYMD(s) /\
    LET y == DigitsVal(SubSeq(s, 1, 4))
        m == DigitsVal(SubSeq(s, 6, 7))
        d == DigitsVal(SubSeq(s, 9, 10))
    IN  m \notin 1..12 \/ d \notin 1..DaysIn(y, m)

\* A time of the right form that is no 24-hour time.
TimeOutOfRange(s) ==
  IsHMS(s) /\
    \/ DigitsVal(SubSeq(s, 1, 2)) > 23
    \/ DigitsVal(SubSeq(s, 4, 5)) > 59
    \/ Len(s) = 8 /\ DigitsVal(SubSeq(s, 7, 8)) > 59

NumberOutside(o, lo, hi) ==
  IsSome(o) /\ (JsNumber(Val(o)) = NaN \/ JsNumber(Val(o)) < lo * Scale
                  \/ JsNumber(Val(o)) > hi * Scale)

\* The house-system code given: house_system, or hsys when that is not given.
GivenHouseSystem(q0) ==
  IF IsSome(q0.house_system) /\ Val(q0.house_system) # <<>> THEN q0.house_system
  ELSE q0.hsys

IsLetter(c) == \E k \in 1..26 : Lower[k] = c \/ Upper[k] = c

\* The given value of input f is invalid (an empty date or time counts as not
\* given).
InvalidInput(f, q0) ==
  CASE f = "date" ->
         IsSome(q0.date) /\ Val(q0.date) # <<>>
           /\ (~IsYMD(Val(q0.date)) \/ DateOutOfRange(Val(q0.date)))
    [] f = "time" ->
         IsSome(q0.time) /\ Val(q0.time) # <<>>
           /\ (~IsHMS(Val(q0.time)) \/ TimeOutOfRange(Val(q0.time)))
    [] f = "lat" -> NumberOutside(q0.lat, -90, 90)
    [] f = "lng" -> NumberOutside(q0.lng, -180, 180)
    [] f = "tz_offset_minutes" -> NumberOutside(q0.tz_offset_minutes, -900, 900)
    [] f = "house_system" ->
         LET g == GivenHouseSystem(q0)
         IN  IsSome(g) /\ ~(Len(Val(g)) = 1 /\ IsLetter(Val(g)[1]))

\* The message that names input f.
MessageOf(f) ==
  CASE f = "date" -> "Invalid 'date'. Use YYYY-MM-DD."
    [] f = "time" -> "Invalid 'time'. Use HH:MM or HH:MM:SS (24h)."
    [] f = "lat" -> "Invalid 'lat'. Range -90 to 90."
    [] f = "lng" -> "Invalid 'lng'. Range -180 to 180."
    [] f = "tz_offset_minutes" -> "Invalid 'tz_offset_minutes'. Range -900 to 900."
    [] f = "house_system" ->
         "Invalid 'house_system' (or 'hsys'). Provide a single letter code like 'P'."

Validated == build.variant = "v3" /\ pc \notin {"init", "validate"}

\* C7: in v3 each of the six inputs, when invalid, gives a 400 whose message
\* names that field and differs from the other fields' messages; the range
\* limits of lat, lng and tz_offset_minutes are themselves accepted; a rejected
\* request makes no provider call.
C7_Claim ==
  Validated =>
    /\ \A f \in InputNames :
         InvalidInput(f, q) =>
           /\ status = 400 /\ NoComputation
           /\ (\A g \in InputNames \ {f} : ~InvalidInput(g, q)) => error = MessageOf(f)
    /\ \A f, g \in InputNames : f # g => MessageOf(f) # MessageOf(g)
    /\ status = 400 => NoComputation

\* C8: in v3 a date whose month is not in 1..12 or whose day is no day of that
\* month, and a time that is no 24-hour time, are rejected with 400 and
\* nothing is computed.
C8_Claim ==
  (Validated /\ ( (IsSome(q.date) /\ DateOutOfRange(Val(q.date)))
                  \/ (IsSome(q.time) /\ TimeOutOfRange(Val(q.time))) )) =>
    (status = 400 /\ NoComputation)

\* Retrograde by the documented precedence: the explicit boolean, else
\* speed < 0, else false.
DocumentedRetro(r) ==
  IF r.t = "obj" /\ IsSome(r.retrograde) THEN Val(r.retrograde)
  ELSE IF IsSome(speedOf(r)) THEN Val(speedOf(r)) < 0
  ELSE FALSE

\* C9: each body's retrograde status is the provider's explicit boolean when
\* there is one, else speed < 0 when a speed is available, else false.
C9_Claim ==
  build.variant \in {"v2", "v3"} =>
    \A k \in 1..Len(planets) : planets[k].retro = Some(DocumentedRetro(rs[k]))

\* C10: degNorm(x) lies in [0, 360), is congruent to x modulo 360, and equals
\* ((x rem 360) + 360) rem 360 for the sign-preserving remainder.
C10_DegNorm ==
  (call.fn = "degNorm" /\ call.done) =>
    /\ 0 <= call.out /\ call.out < 360
    /\ (call.out - call.arg) % 360 = 0
    /\ call.out = JsRem(JsRem(call.arg, 360) + 360, 360)

C10_Witness ==
  call.fn = "degNorm" /\ call.done /\ call.arg = -390 /\ call.out = 330

\* The fixed list of the twelve signs, in zodiac order.
ZodiacOrder ==
  << "Aries", "Taurus", "Gemini", "Cancer", "Leo", "Virgo", "Libra",
     "Scorpio", "Sagittarius", "Capricorn", "Aquarius", "Pisces" >>

\* C11: signName is total and piecewise constant: for every degree x it is the
\* element at index floor(norm(x) / 30) of the fixed list of twelve signs, the
\* index is in 0..11, 0 and 360 give Aries, 30 gives Taurus, every degree in
\* [330, 360) gives Pisces, and x and its normalised degree give the same sign.
C11_SignName ==
  (call.fn = "signName" /\ call.done) =>
    LET n   == call.arg % 360
        idx == n \div 30
    IN  /\ idx \in 0..11
        /\ call.out = ZodiacOrder[idx + 1]
        /\ call.out = signName(n)
        /\ call.arg \in {0, 360} => call.out = "Aries"
        /\ call.arg = 30 => call.out = "Taurus"
        /\ n \in 330..359 => call.out = "Pisces"

C11_Witness ==
  call.fn = "signName" /\ call.done /\ call.arg = -30 /\ call.out = "Pisces"

\* The days of the civil (Gregorian) calendar from 1 January 1899 to the date.
RECURSIVE DaysBeforeMonth(_, _)
DaysBeforeMonth(y, m) ==
  IF m = 1 THEN 0 ELSE DaysBeforeMonth(y, m - 1) + DaysIn(y, m - 1)

CivilDays(y, m, d) ==
  365 * (y - 1899) + Cardinality({k \in 1899..(y - 1) : IsLeap(k)})
    + DaysBeforeMonth(y, m) + (d - 1)

IsCivilDate(a) == a.d <= DaysIn(a.y, a.m)

\* The calendar date after and before a date.
NextDate(a) ==
  IF a.d < DaysIn(a.y, a.m) THEN [a EXCEPT !.d = a.d + 1]
  ELSE IF a.m < 12 THEN [a EXCEPT !.m = a.m + 1, !.d = 1]
  ELSE [a EXCEPT !.y = a.y + 1, !.m = 1, !.d = 1]

PrevDate(a) ==
  IF a.d > 1 THEN [a EXCEPT !.d = a.d - 1]
  ELSE IF a.m > 1 THEN [a EXCEPT !.m = a.m - 1, !.d = DaysIn(a.y, a.m - 1)]
  ELSE [a EXCEPT !.y = a.y - 1, !.m = 12, !.d = 31]

\* The Julian day the helper gives for date a at ut seconds.
JdAt(a, ut) == julianDayUT(a.y, a.m, a.d, ut)

\* Two Julian days, each day + sec / 86400, are the same number.
SameJd(x, z) == (x.day - z.day) * 86400 = z.sec - x.sec

\* The Julian day one day after x.
DayAfter(x) == [x EXCEPT !.day = x.day + 1]

\* C12: julianDay is the civil-calendar day count: 1992-09-08 12h UT is
\* 2448874.0, the next calendar date at the same utHours is exactly one day
\* later (across month ends, year ends, leap days and century years), the
\* utHours term adds exactly utHours / 24, and a UT time before 0h or after
\* 24h gives the value of the same instant on the adjacent date.
C12_JulianDay ==
  (call.fn = "julianDay" /\ call.done /\ IsCivilDate(call.arg)) =>
    LET a  == call.arg
        ut == a.localSec - 60 * a.tz
    IN  /\ SameJd(call.out,
                  [day |-> 2448874 + CivilDays(a.y, a.m, a.d) - CivilDays(1992, 9, 8),
                   sec |-> ut - 43200])
        /\ (a.y = 1992 /\ a.m = 9 /\ a.d = 8 /\ ut = 43200) =>
             SameJd(call.out, [day |-> 2448874, sec |-> 0])
        /\ SameJd(JdAt(NextDate(a), ut), DayAfter(call.out))
        /\ ut < 0 => SameJd(call.out, JdAt(PrevDate(a), ut + 86400))
        /\ ut >= 86400 => SameJd(call.out, JdAt(NextDate(a), ut - 86400))

\* 1 March 2000 at 01:00 local time, ten hours east of UTC: the instant is
\* 15:00 UT on the leap day.
C12_Witness ==
  /\ call.fn = "julianDay" /\ call.done
  /\ call.arg = [y |-> 2000, m |-> 3, d |-> 1, localSec |-> 3600, tz |-> 600]
  /\ SameJd(call.out, julianDayUT(2000, 2, 29, 54000))
  /\ call.out.day = 2451605

\* The ten planets in the order of the response.
TenPlanets ==
  << "Sun", "Moon", "Mercury", "Venus", "Mars", "Jupiter", "Saturn", "Uranus",
     "Neptune", "Pluto" >>

\* C13: every 200 response lists exactly ten planets, named Sun, Moon,
\* Mercury, Venus, Mars, Jupiter, Saturn, Uranus, Neptune, Pluto in that order,
\* whatever the provider returned for each body.
C13_TenPlanets ==
  (Responded /\ status = 200) =>
    /\ Len(planets) = 10
    /\ Len(rs) = 10
    /\ \A k \in 1..10 : planets[k].name = TenPlanets[k]

\* A 200 response of the validated handler whose Moon has no longitude.
C13_Witness ==
  /\ Responded /\ status = 200 /\ build.variant = "v3"
  /\ Len(planets) = 10
  /\ planets[2].name = "Moon" /\ planets[2].sign = "Unknown"
  /\ planets[10].name = "Pluto"

\* The cusp sequence the provider returned to the validated handler, if any.
ProviderCusps ==
  IF IsSome(hres) /\ Val(hres).t # "throw" THEN cuspsRawV3(Val(hres)) ELSE None

NoPlanetHasHouse == \A k \in 1..Len(planets) : planets[k].house = None

\* C14: in the validated handler, cusps are exactly 12 entries or treated as
\* absent: when the provider returns a cusp sequence whose length is not 12, no
\* planet receives a house number and the response carries no houses
\* structure; a returned houses structure has exactly 12 cusps and every
\* planet's house, when present, is in 1..12.
C14_Claim ==
  (Responded /\ status = 200 /\ build.variant = "v3") =>
    /\ (IsSome(ProviderCusps) /\ Len(Val(ProviderCusps)) # 12) =>
         (NoPlanetHasHouse /\ houses = None)
    /\ IsSome(houses) => Len(Val(houses)) = 12
    /\ \A k \in 1..Len(planets) :
         IsSome(planets[k].house) => Val(planets[k].house) \in 1..12

\* The topics in their documented order, each with its keywords.
Topics ==
  << {<<"c", "a", "r", "e", "e", "r">>, <<"w", "o", "r", "k">>}, {<<"l", "o", "v", "e">>, <<"r", "e", "l", "a", "t", "i", "o", "n", "s", "h", "i", "p">>},
     {<<"p", "u", "r", "p", "o", "s", "e">>, <<"l", "i", "f", "e">>}, {<<"h", "e", "a", "l", "t", "h">>, <<"w", "e", "l", "l", "b", "e", "i", "n", "g">>} >>

\* Word w occurs in text t, letters compared without regard to case.
OccursAnyCase(t, w) ==
  \E i \in 0..(Len(t) - Len(w)) :
    \A k \in 1..Len(w) : UpperChar(t[i + k]) = UpperChar(w[k])

MatchingTopics(msg) == {i \in 1..4 : \E w \in Topics[i] : OccursAnyCase(msg, w)}

FiveGuidances ==
  << GuidanceCareer, GuidanceLove, GuidancePurpose, GuidanceHealth, GuidanceGeneric >>

\* The guidance of the earliest matching topic, the generic prompt when no
\* topic matches.
DocumentedGuidance(msg) ==
  LET ts == MatchingTopics(msg)
  IN  IF ts = {} THEN FiveGuidances[5]
      ELSE FiveGuidances[CHOOSE i \in ts : \A j \in ts : i <= j]

\* The request is a POST whose parsed body has both message and chart.
ChatAccepted ==
  /\ chat.method = "POST" /\ chat.body.t = "obj"
  /\ ~noMessage(chat.body) /\ ~noChart(chat.body)

ChatDone == chat.pc = "done"

\* C15: the chat router is total and priority-ordered: every accepted message
\* gets exactly one of five fixed guidance texts, that of the first topic in
\* the order career/work, love/relationship, purpose/life, health/wellbeing
\* with a keyword occurring in the message regardless of case, or the generic
\* prompt when none occurs.
C15_Router ==
  (ChatDone /\ ChatAccepted) =>
    /\ chat.status = 200
    /\ chat.guidance = DocumentedGuidance(Val(chat.body.message))
    /\ \E i \in 1..5 : chat.guidance = FiveGuidances[i]
    /\ \A i, j \in 1..5 : i # j => FiveGuidances[i] # FiveGuidances[j]

\* The documented example: career is checked before love.
C15_Witness ==
  /\ ChatDone /\ chat.status = 200
  /\ chat.body.message = Some(<<"W", "h", "a", "t", " ", "a", "b", "o", "u", "t", " ", "m", "y", " ", "c", "a", "r", "e", "e", "r", " ", "a", "n", "d", " ", "l", "o", "v", "e", " ", "l", "i", "f", "e", "?">>)
  /\ chat.guidance = GuidanceCareer

\* C16: the chat handler checks in a fixed order and composes no reply for a
\* rejected request: a request that is not a POST is answered 405 whatever its
\* body; a POST without a body, or whose body lacks message or chart, is
\* answered 400 with no summary and no guidance computed; only a POST with
\* both is answered 200, and its reply is "Coaler: I see your chart:
\* <summary>. <guidance> What would you like to explore next?".
C16_ChatOrder ==
  ChatDone =>
    /\ chat.method # "POST" => chat.status = 405
    /\ (chat.method = "POST" /\ chat.body.t # "throw" /\ ~ChatAccepted) => chat.status = 400
    /\ chat.status = 200 <=> ChatAccepted
    /\ chat.status # 200 =>
         (chat.summary = "" /\ chat.guidance = "" /\ chat.reply = "" /\ chat.error # "")
    /\ chat.status = 200 =>
         /\ chat.summary = makeSummary(Val(chat.body.chart))
         /\ chat.reply =
              "Coaler: I see your chart: " \o chat.summary \o ". " \o chat.guidance
                \o " What would you like to explore next?"

\* A GET that carries a complete body is still answered 405.
C16_Witness ==
  /\ ChatDone /\ chat.method = "GET" /\ chat.status = 405
  /\ chat.body.t = "obj" /\ ~noMessage(chat.body) /\ ~noChart(chat.body)

\* Twelve distinct degrees in [0, 360) in cyclically increasing order: exactly
\* one index whose cusp is greater than the next one's.
WellFormed(c) ==
  /\ Len(c) = 12
  /\ \A i \in 1..12 : 0 <= c[i] /\ c[i] < 360
  /\ \A i, j \in 1..12 : i # j => c[i] # c[j]
  /\ Cardinality({i \in 1..12 : c[i] > c[(i % 12) + 1]}) = 1

\* The houses whose half-open interval [cusp i, cusp i+1) holds deg.
HousesHolding(deg, c) ==
  {i \in 1..12 :
     LET st == c[i]
         en == c[(i % 12) + 1]
     IN  IF st <= en THEN (st <= deg /\ deg < en) ELSE (deg >= st \/ deg < en)}

\* C17: with well-formed cusps the twelve half-open house intervals partition
\* the circle: exactly one interval holds any planet degree in [0, 360), the
\* loop returns that house, and the default of house 12 for "no interval
\* matches" is never taken.
C17_Partition ==
  (call.fn = "houseNum" /\ call.done /\ WellFormed(call.arg.cusps)) =>
    /\ Cardinality(HousesHolding(call.arg.deg, call.arg.cusps)) = 1
    /\ call.out \in HousesHolding(call.arg.deg, call.arg.cusps)

\* The wrap falls between the sixth and seventh cusp (350 and 20); a planet at
\* 5 is in house 6.
C17_Witness ==
  /\ call.fn = "houseNum" /\ call.done /\ WellFormed(call.arg.cusps)
  /\ call.arg.cusps[6] = 350 /\ call.arg.cusps[7] = 20
  /\ call.arg.deg = 5 /\ call.out = 6

====
